---- MODULE Spec2Model ----
(***************************************************************************)
(* Model of the baidu_face_identify Home Assistant integration:            *)
(*   src/__init__.py          async_setup, BaiduFace (get_token, call_api, *)
(*                            update_store), BaiduFaceGroupEntity          *)
(*   src/image_processing.py  BaiduFaceIdentifyEntity.async_process_image  *)
(*                                                                         *)
(* Every coroutine is cut at its awaits: one action per network event of   *)
(* a request in flight, and the code that runs between two awaits is part  *)
(* of the action that resumes the coroutine.  The server and the transport *)
(* are the environment: their answers are drawn from small sets.           *)
(***************************************************************************)
EXTENDS Integers, Sequences, FiniteSets, TLC

\* ------------------------------------------------------------------ bounds
MaxGroups == 2
MaxPersons == 2
MaxUsers == 2

\* ------------------------------------------------------- program constants
\* CONF_CONFIDENCE of the platform configuration, shared by its entities.
Confidence == 80

\* response.status < 300 is success.
StatusLimit == 300

Statuses == {200, 400}

Entities == {"cam1", "cam2"}

SetupCaller == "setup"

Callers == {SetupCaller} \cup Entities

\* The frames a camera supplies, each camera its own.
Images(e) == {<<"frame", e>>}

\* What datetime.now().strftime("%Y%m%d_%H%M%S") can return during a call.
Timestamps == {"20200101_000000", "20200101_000001"}

FaceGroup == "g1"

\* config_dir + local_path.replace("local", "www"), local_path ending in "/".
SavePath == "/config/www/face/"

Tokens == {"T1"}

ServerMessages == {"E1"}

GroupNames == <<"g1", "g2", "g3", "g4">>

PersonNames == <<"p1", "p2", "p3", "p4">>

UserNames == <<"u1", "u2", "u3", "u4">>

GroupIds == {GroupNames[i] : i \in 1..MaxGroups}

PersonIds == {PersonNames[i] : i \in 1..MaxPersons}

UserIds == {UserNames[i] : i \in 1..MaxUsers}

Scores == {Confidence - 1, Confidence, Confidence + 1}

\* ----------------------------------------------------------------- helpers
\* Sequences over S without repetition, of length lo..hi.
DistinctSeqs(S, lo, hi) ==
  UNION {{s \in [1..n -> S] : \A i, j \in 1..n : i # j => s[i] # s[j]} : n \in lo..hi}

Range(s) == {s[i] : i \in 1..Len(s)}

\* A JSON "result" that is null (or an empty object): falsy in Python.
NoResult == [present |-> FALSE]

\* Python truthiness of a "result" value.
Truthy(r) == r.present

\* ------------------------------------------------------ the server's answers
TokenAnswers(status) ==
  {[error |-> [message |-> m]] : m \in ServerMessages}
    \cup (IF status < StatusLimit THEN {[access_token |-> t] : t \in Tokens} ELSE {})

GroupListResults ==
  {NoResult} \cup {[present |-> TRUE, group_id_list |-> l] : l \in DistinctSeqs(GroupIds, 0, MaxGroups)}

UserListResults ==
  {NoResult} \cup {[present |-> TRUE, user_id_list |-> l] : l \in DistinctSeqs(PersonIds, 0, MaxPersons)}

MatchEntries ==
  [score : Scores, user_id : UserIds, group_id : {FaceGroup}, user_info : {"x"}]

MatchLists ==
  UNION {{s \in [1..n -> MatchEntries] : \A i, j \in 1..n : i # j => s[i].user_id # s[j].user_id}
           : n \in 1..MaxUsers}

SearchResults ==
  {NoResult} \cup {[present |-> TRUE, user_list |-> l] : l \in MatchLists}

ResultsOf(function) ==
  IF function = "faceset/group/getlist" THEN GroupListResults
  ELSE IF function = "faceset/group/getusers" THEN UserListResults
  ELSE SearchResults

ApiAnswers(function, status) ==
  IF status < StatusLimit
  THEN {[result |-> r] : r \in ResultsOf(function)}
  ELSE {[error |-> [message |-> m]] : m \in ServerMessages}

\* ------------------------------------------------------------------- errors
HomeAssistantError(msg) == [class |-> "HomeAssistantError", msg |-> msg]

NetworkError(op) ==
  HomeAssistantError(IF op = "get_token" THEN "Network error on baidu token api."
                     ELSE "Network error on baidu face api.")

\* Reading response.url while the name response was never assigned.
UnboundLocalError == [class |-> "UnboundLocalError", msg |-> "response"]

\* asyncio.wait handed coroutine objects by a runtime that takes tasks only.
TypeError ==
  [class |-> "TypeError", msg |-> "Passing coroutines is forbidden, use tasks explicitly."]

NoError == [class |-> "none", msg |-> ""]

\* ------------------------------------------------------------------- state
VARIABLES
  setupPc,      \* position of async_setup: start, get_token, getlist, getusers, wait, done
  setupResult,  \* none, True, False, or raised (an error left async_setup)
  setupError,   \* the error that ended async_setup, NoError otherwise
  published,    \* DOMAIN in hass.data
  token,        \* BaiduFace._token
  store,        \* BaiduFace._store: group -> (person -> person)
  entities,     \* keys of BaiduFace._entities
  hassState,    \* group -> state written to the host by async_update_ha_state
  groups,       \* update_store: the "result" of the group list call
  idx,          \* update_store: position of the for loop in group_id_list
  reported,     \* update_store: group -> the "result" of its getusers call
  tasks,        \* update_store: the tasks list
  pending,      \* update_store: tasks asyncio.wait has not seen resolve yet
  net,          \* caller -> its request in flight
  lastCall,     \* how the last finished get_token / call_api ended
  procPc,       \* entity -> idle, await
  frame,        \* entity -> the image of the process call in progress
  ATTR_LIST,    \* the module-level scratch dictionary
  done,         \* what the last finished async_process_image did
  overlapped    \* entity -> another entity wrote ATTR_LIST while it awaited its call

setupVars == <<setupPc, setupResult, setupError, published, token, store, entities,
               hassState, groups, idx, reported, tasks, pending>>

procVars == <<procPc, frame, ATTR_LIST, done, overlapped>>

vars == <<setupVars, net, lastCall, procVars>>

\* ------------------------------------------------- get_token and call_api
\* The request of one call, as the caller builds it.
Request(method, function, params, data) ==
  [method |-> method, function |-> function, params |-> params, data |-> data]

NoRequest == Request("", "", "", "")

TokenRequest == Request("get", "token", "client_credentials", "")

IdleNet ==
  [op |-> "none", req |-> NoRequest, phase |-> "idle", timer |-> FALSE,
   bound |-> FALSE, status |-> 0]

\* Entering "with async_timeout.timeout(self.timeout)" and awaiting the request:
\* the timer runs and the name response is not assigned yet.
Dispatch(op, req) ==
  [op |-> op, req |-> req, phase |-> "request", timer |-> TRUE,
   bound |-> FALSE, status |-> 0]

\* Whether "await response.json()" is inside the with block of the timeout:
\* it is in get_token and is not in call_api.
TimeoutCoversBody(op) == op = "get_token"

\* The request resolves: response is assigned, and the coroutine awaits the body.
Respond(n, status) ==
  [n EXCEPT !.phase = "body", !.bound = TRUE, !.status = status,
            !.timer = TimeoutCoversBody(n.op)]

\* except aiohttp.ClientError: log, fall through to the final raise.
ClientErrorHandler(n) == NetworkError(n.op)

\* except asyncio.TimeoutError: the log line reads response.url, then the final raise.
TimeoutHandler(n) == IF n.bound THEN NetworkError(n.op) ELSE UnboundLocalError

\* get_token: response.status < 300 and "access_token" in answer.
TokenAccepted(status, answer) ==
  status < StatusLimit /\ "access_token" \in DOMAIN answer

\* call_api: response.status < 300.
ApiAccepted(status) == status < StatusLimit

\* raise HomeAssistantError(answer["error"]["message"])
Rejection(answer) == HomeAssistantError(answer.error.message)

NoCall ==
  [caller |-> "none", op |-> "none", function |-> "", stage |-> "none",
   cause |-> "none", error |-> NoError]

\* The record of a finished call: which call, where and why it ended, what it raised.
Finished(c, n, cause, err) ==
  [caller |-> c, op |-> n.op, function |-> n.req.function, stage |-> n.phase,
   cause |-> cause, error |-> err]

\* ------------------------------------------------------------- update_store
EmptyPersons == [p \in {} |-> p]

\* self._store[group] = {}
StoreWithGroup(st, g) ==
  [x \in DOMAIN st \cup {g} |-> IF x = g THEN EmptyPersons ELSE st[x]]

\* The loop stopping one person short.
StoreWithPersons_SkipsLast(st, g, persons) ==
  [st EXCEPT ![g] = [p \in DOMAIN st[g] \cup {persons[i] : i \in 1..(Len(persons) - 1)} |-> p]]

\* for person in persons["user_id_list"]: self._store[group][person] = person
StoreWithPersons(st, g, persons) ==
  [st EXCEPT ![g] = [p \in DOMAIN st[g] \cup Range(persons) |-> p]]

\* BaiduFaceGroupEntity.state
EntityState(st, g) == Cardinality(DOMAIN st[g])

GetUsersRequest(g) ==
  Request("get", "faceset/group/getusers", [group_id |-> g], "")

GetListRequest == Request("post", "faceset/group/getlist", "", "")

\* What "await asyncio.wait(tasks)" does with the coroutine objects of tasks: the
\* asyncio of Python before 3.11 wraps them in tasks and waits for them all, the
\* asyncio of Python 3.11 and later raises TypeError before any of them runs.
AsyncioWaitOutcomes == {"waits", "TypeError"}

\* ------------------------------------------------------ async_process_image
AttrKeys == {"group_id", "score", "user_id", "user_info"}

\* The sentinel "null" of ATTR_LIST.  Values of the dictionary are boxed, the
\* sentinel as <<"null">> and a value v of the response as <<"value", v>>, so
\* that a string and a number can be told apart.
Sentinel == <<"null">>

Box(v) == <<"value", v>>

Unbox(b) == b[2]

\* for key in ATTR_LIST: ATTR_LIST[key] = "null"
ResetAttrs(attrs) == [k \in DOMAIN attrs |-> Sentinel]

\* The last entry of user_list read instead of the first.
FillAttrs_LastEntry(attrs, user_list) ==
  [k \in DOMAIN attrs |-> Box(user_list[Len(user_list)][k])]

\* for key in ATTR_LIST: ATTR_LIST[key] = ret_json["user_list"][0][key]
FillAttrs(attrs, user_list) == [k \in DOMAIN attrs |-> Box(user_list[1][k])]

\* confidence = ret_json["user_list"][0]["score"]
TopScore(user_list) == user_list[1].score

\* The comparison turned round.
SavesFrame_Reversed(confidence, threshold) == confidence < threshold

\* if confidence > self._confidence
SavesFrame(confidence, threshold) == confidence > threshold

\* The file open(save_path, "wb") creates and the bytes written to it:
\* {save_path}{user_id}_{%Y%m%d_%H%M%S}_{confidence}.jpg
SavedFile(attrs, now, confidence, image) ==
  [dir |-> SavePath, user_id |-> Unbox(attrs["user_id"]), time |-> now,
   confidence |-> confidence, content |-> image]

\* {ATTR_NAME: ATTR_LIST[ATTR_UID], ATTR_CONFIDENCE: confidence}
KnownFace(attrs, confidence) ==
  [name |-> Unbox(attrs["user_id"]), confidence |-> confidence]

\* str(base64.b64encode(image), "utf-8")
B64Encode(image) == <<"base64", image>>

SearchRequest(image) ==
  Request("post", "search", [image_type |-> "BASE64", group_id_list |-> FaceGroup],
          [image |-> B64Encode(image)])

NoImage == <<"frame", "">>

NoDone ==
  [entity |-> "none", image |-> NoImage, outcome |-> "none", search |-> "none",
   cause |-> "none", result |-> NoResult, called |-> FALSE, faces |-> <<>>,
   files |-> <<>>, overlapped |-> FALSE]

\* ------------------------------------------------------------------ Init
Init ==
  /\ setupPc = "start"
  /\ setupResult = "none"
  /\ setupError = NoError
  /\ published = FALSE
  /\ token = ""
  /\ store = [g \in {} |-> EmptyPersons]
  /\ entities = {}
  /\ hassState = [g \in {} |-> 0]
  /\ groups = NoResult
  /\ idx = 0
  /\ reported = [g \in {} |-> NoResult]
  /\ tasks = <<>>
  /\ pending = {}
  /\ net = [c \in Callers |-> IdleNet]
  /\ lastCall = NoCall
  /\ procPc = [e \in Entities |-> "idle"]
  /\ frame = [e \in Entities |-> NoImage]
  /\ ATTR_LIST = [k \in AttrKeys |-> Sentinel]
  /\ done = NoDone
  /\ overlapped = [e \in Entities |-> FALSE]

\* ----------------------------------------------------------- async_setup
updateVars == <<store, entities, hassState, groups, idx, reported, tasks, pending>>

\* async_setup calls face.get_token(): the token request is dispatched.
SetupStart ==
  /\ setupPc = "start"
  /\ setupPc' = "get_token"
  /\ net' = [net EXCEPT ![SetupCaller] = Dispatch("get_token", TokenRequest)]
  /\ UNCHANGED <<setupResult, setupError, published, token, updateVars, lastCall, procVars>>

\* An error leaves get_token or call_api: "except HomeAssistantError" in
\* async_setup returns False; any other error leaves async_setup.
AsyncSetupFails(cause, err) ==
  /\ setupPc' = "done"
  /\ setupResult' = IF err.class = "HomeAssistantError" THEN "False" ELSE "raised"
  /\ setupError' = err
  /\ lastCall' = Finished(SetupCaller, net[SetupCaller], cause, err)
  /\ net' = [net EXCEPT ![SetupCaller] = IdleNet]
  /\ UNCHANGED <<published, token, updateVars, procVars>>

\* update_store returns: hass.data[DOMAIN] = face; return True.
AsyncSetupSucceeds ==
  /\ setupPc' = "done"
  /\ setupResult' = "True"
  /\ published' = TRUE
  /\ UNCHANGED <<setupError, token>>

TokenResponse ==
  /\ net[SetupCaller].op = "get_token" /\ net[SetupCaller].phase = "request"
  /\ \E status \in Statuses :
       net' = [net EXCEPT ![SetupCaller] = Respond(@, status)]
  /\ UNCHANGED <<setupVars, lastCall, procVars>>

TokenClientError ==
  /\ net[SetupCaller].op = "get_token"
  /\ net[SetupCaller].phase \in {"request", "body"}
  /\ AsyncSetupFails("client_error", ClientErrorHandler(net[SetupCaller]))

TokenTimeout ==
  /\ net[SetupCaller].op = "get_token"
  /\ net[SetupCaller].phase \in {"request", "body"}
  /\ net[SetupCaller].timer
  /\ AsyncSetupFails("timeout", TimeoutHandler(net[SetupCaller]))

\* The body of the token response is read; on success update_store starts with
\* the group list call.
TokenBody ==
  /\ net[SetupCaller].op = "get_token" /\ net[SetupCaller].phase = "body"
  /\ \E answer \in TokenAnswers(net[SetupCaller].status) :
       IF TokenAccepted(net[SetupCaller].status, answer)
       THEN /\ token' = answer.access_token
            /\ setupPc' = "getlist"
            /\ lastCall' = Finished(SetupCaller, net[SetupCaller], "ok", NoError)
            /\ net' = [net EXCEPT ![SetupCaller] = Dispatch("call_api", GetListRequest)]
            /\ UNCHANGED <<setupResult, setupError, published, updateVars, procVars>>
       ELSE AsyncSetupFails("rejected", Rejection(answer))

SetupApiResponse ==
  /\ net[SetupCaller].op = "call_api" /\ net[SetupCaller].phase = "request"
  /\ \E status \in Statuses :
       net' = [net EXCEPT ![SetupCaller] = Respond(@, status)]
  /\ UNCHANGED <<setupVars, lastCall, procVars>>

SetupApiClientError ==
  /\ net[SetupCaller].op = "call_api"
  /\ net[SetupCaller].phase \in {"request", "body"}
  /\ AsyncSetupFails("client_error", ClientErrorHandler(net[SetupCaller]))

\* The timer of call_api runs only while the request is awaited.
SetupApiTimeout ==
  /\ net[SetupCaller].op = "call_api"
  /\ net[SetupCaller].phase \in {"request", "body"}
  /\ net[SetupCaller].timer
  /\ AsyncSetupFails("timeout", TimeoutHandler(net[SetupCaller]))

\* The for loop of update_store enters group number i of list l: the store
\* entry and the entity are created and the person list call is dispatched.
EnterGroup(l, i, st) ==
  /\ store' = StoreWithGroup(st, l[i])
  /\ entities' = entities \cup {l[i]}
  /\ idx' = i
  /\ setupPc' = "getusers"
  /\ net' = [net EXCEPT ![SetupCaller] = Dispatch("call_api", GetUsersRequest(l[i]))]
  /\ UNCHANGED <<setupResult, setupError, published, token>>

\* The group list call returned result r.
GroupListReturned(r) ==
  /\ groups' = r
  /\ lastCall' = Finished(SetupCaller, net[SetupCaller], "ok", NoError)
  /\ UNCHANGED <<hassState, reported, tasks, pending, procVars>>
  /\ IF Truthy(r) /\ Len(r.group_id_list) > 0
     THEN EnterGroup(r.group_id_list, 1, store)
     ELSE /\ AsyncSetupSucceeds
          /\ net' = [net EXCEPT ![SetupCaller] = IdleNet]
          /\ UNCHANGED <<store, entities, idx>>

\* The person list call of the current group returned result r.
UsersReturned(r) ==
  LET l == groups.group_id_list
      g == l[idx]
      st == IF Truthy(r) THEN StoreWithPersons(store, g, r.user_id_list) ELSE store
      ts == IF Truthy(r) THEN Append(tasks, g) ELSE tasks
  IN /\ reported' = [x \in DOMAIN reported \cup {g} |-> IF x = g THEN r ELSE reported[x]]
     /\ tasks' = ts
     /\ lastCall' = Finished(SetupCaller, net[SetupCaller], "ok", NoError)
     /\ UNCHANGED <<groups, hassState, procVars>>
     /\ IF idx < Len(l)
        THEN /\ EnterGroup(l, idx + 1, st)
             /\ UNCHANGED pending
        ELSE /\ store' = st
             /\ net' = [net EXCEPT ![SetupCaller] = IdleNet]
             /\ UNCHANGED <<entities, idx>>
             /\ IF ts # <<>>
                THEN \E outcome \in AsyncioWaitOutcomes :
                       IF outcome = "waits"
                       THEN /\ setupPc' = "wait"
                            /\ pending' = Range(ts)
                            /\ UNCHANGED <<setupResult, setupError, published, token>>
                       ELSE /\ setupPc' = "done"
                            /\ setupResult' = "raised"
                            /\ setupError' = TypeError
                            /\ UNCHANGED <<published, token, pending>>
                ELSE /\ AsyncSetupSucceeds
                     /\ UNCHANGED pending

SetupApiBody ==
  /\ net[SetupCaller].op = "call_api" /\ net[SetupCaller].phase = "body"
  /\ \E answer \in ApiAnswers(net[SetupCaller].req.function, net[SetupCaller].status) :
       IF ApiAccepted(net[SetupCaller].status)
       THEN IF setupPc = "getlist"
            THEN GroupListReturned(answer.result)
            ELSE UsersReturned(answer.result)
       ELSE AsyncSetupFails("rejected", Rejection(answer))

\* One task of asyncio.wait(tasks) resolves: the entity of group g writes its
\* state to the host.
RefreshEntity ==
  /\ setupPc = "wait"
  /\ \E g \in pending :
       /\ hassState' = [x \in DOMAIN hassState \cup {g} |->
                          IF x = g THEN EntityState(store, g) ELSE hassState[x]]
       /\ pending' = pending \ {g}
  /\ UNCHANGED <<setupPc, setupResult, setupError, published, token, store, entities,
                 groups, idx, reported, tasks, net, lastCall, procVars>>

\* Every task has resolved: in a later turn of the event loop asyncio.wait
\* returns, update_store returns and async_setup publishes the client.
UpdateStoreReturns ==
  /\ setupPc = "wait"
  /\ pending = {}
  /\ AsyncSetupSucceeds
  /\ UNCHANGED <<updateVars, net, lastCall, procVars>>

SetupNext ==
  \/ SetupStart
  \/ TokenResponse
  \/ TokenClientError
  \/ TokenTimeout
  \/ TokenBody
  \/ SetupApiResponse
  \/ SetupApiClientError
  \/ SetupApiTimeout
  \/ SetupApiBody
  \/ RefreshEntity
  \/ UpdateStoreReturns

SetupSpec == Init /\ [][SetupNext]_vars

\* ------------------------------------------------ async_process_image steps
\* The camera hands a frame to the entity: the search call is dispatched.
ProcessStart(e) ==
  /\ published
  /\ procPc[e] = "idle"
  /\ \E image \in Images(e) :
       /\ frame' = [frame EXCEPT ![e] = image]
       /\ net' = [net EXCEPT ![e] = Dispatch("call_api", SearchRequest(image))]
  /\ procPc' = [procPc EXCEPT ![e] = "await"]
  /\ overlapped' = [overlapped EXCEPT ![e] = FALSE]
  /\ UNCHANGED <<setupVars, lastCall, ATTR_LIST, done>>

\* call_api raised err: "except HomeAssistantError" logs and returns; any other
\* error leaves async_process_image.  Nothing after the except clause runs.
ProcessFails(e, cause, err) ==
  /\ done' = [entity |-> e, image |-> frame[e],
              outcome |-> IF err.class = "HomeAssistantError" THEN "returned" ELSE "raised",
              search |-> "failed", cause |-> cause, result |-> NoResult,
              called |-> FALSE, faces |-> <<>>, files |-> <<>>,
              overlapped |-> overlapped[e]]
  /\ lastCall' = Finished(e, net[e], cause, err)
  /\ net' = [net EXCEPT ![e] = IdleNet]
  /\ procPc' = [procPc EXCEPT ![e] = "idle"]
  /\ frame' = [frame EXCEPT ![e] = NoImage]
  /\ overlapped' = [overlapped EXCEPT ![e] = FALSE]
  /\ UNCHANGED <<setupVars, ATTR_LIST>>

\* call_api returned an answer whose "result" is ret_json: the rest of
\* async_process_image runs without another await.
ProcessParses(e, ret_json, now) ==
  LET reset == ResetAttrs(ATTR_LIST)
      attrs == IF Truthy(ret_json) THEN FillAttrs(reset, ret_json.user_list) ELSE reset
      confidence == TopScore(ret_json.user_list)
      files == IF Truthy(ret_json) /\ SavesFrame(confidence, Confidence)
               THEN <<SavedFile(attrs, now, confidence, frame[e])>>
               ELSE <<>>
      known_faces == IF Truthy(ret_json) THEN <<KnownFace(attrs, confidence)>> ELSE <<>>
  IN /\ ATTR_LIST' = attrs
     /\ done' = [entity |-> e, image |-> frame[e], outcome |-> "returned",
                 search |-> "ok", cause |-> "ok", result |-> ret_json,
                 called |-> TRUE, faces |-> known_faces, files |-> files,
                 overlapped |-> overlapped[e]]
     /\ overlapped' = [x \in Entities |-> x # e /\ procPc[x] = "await"]
     /\ lastCall' = Finished(e, net[e], "ok", NoError)
     /\ net' = [net EXCEPT ![e] = IdleNet]
     /\ procPc' = [procPc EXCEPT ![e] = "idle"]
     /\ frame' = [frame EXCEPT ![e] = NoImage]
     /\ UNCHANGED setupVars

SearchResponse(e) ==
  /\ procPc[e] = "await" /\ net[e].phase = "request"
  /\ \E status \in Statuses :
       net' = [net EXCEPT ![e] = Respond(@, status)]
  /\ UNCHANGED <<setupVars, lastCall, procVars>>

SearchClientError(e) ==
  /\ procPc[e] = "await" /\ net[e].phase \in {"request", "body"}
  /\ ProcessFails(e, "client_error", ClientErrorHandler(net[e]))

SearchTimeout(e) ==
  /\ procPc[e] = "await" /\ net[e].phase \in {"request", "body"}
  /\ net[e].timer
  /\ ProcessFails(e, "timeout", TimeoutHandler(net[e]))

SearchBody(e) ==
  /\ procPc[e] = "await" /\ net[e].phase = "body"
  /\ \E answer \in ApiAnswers(net[e].req.function, net[e].status), now \in Timestamps :
       IF ApiAccepted(net[e].status)
       THEN ProcessParses(e, answer.result, now)
       ELSE ProcessFails(e, "rejected", Rejection(answer))

ProcessNext ==
  \/ \E e \in Entities : ProcessStart(e)
  \/ \E e \in Entities : SearchResponse(e)
  \/ \E e \in Entities : SearchClientError(e)
  \/ \E e \in Entities : SearchTimeout(e)
  \/ \E e \in Entities : SearchBody(e)

\* The state in which async_setup has returned True for an account without
\* groups: the platform's entities exist only once hass.data holds the client.
ProcessInit ==
  /\ setupPc = "done"
  /\ setupResult = "True"
  /\ setupError = NoError
  /\ published = TRUE
  /\ token = "T1"
  /\ store = [g \in {} |-> EmptyPersons]
  /\ entities = {}
  /\ hassState = [g \in {} |-> 0]
  /\ groups = NoResult
  /\ idx = 0
  /\ reported = [g \in {} |-> NoResult]
  /\ tasks = <<>>
  /\ pending = {}
  /\ net = [c \in Callers |-> IdleNet]
  /\ lastCall = [caller |-> SetupCaller, op |-> "call_api",
                 function |-> "faceset/group/getlist", stage |-> "body",
                 cause |-> "ok", error |-> NoError]
  /\ procPc = [e \in Entities |-> "idle"]
  /\ frame = [e \in Entities |-> NoImage]
  /\ ATTR_LIST = [k \in AttrKeys |-> Sentinel]
  /\ done = NoDone
  /\ overlapped = [e \in Entities |-> FALSE]

ProcessSpec == ProcessInit /\ [][ProcessNext]_vars

Next == SetupNext \/ ProcessNext

Spec == Init /\ [][Next]_vars

\* ------------------------------------------------------------------ claims
\* The search call of the last finished process call succeeded.
SearchOk == done.entity # "none" /\ done.search = "ok"

\* ... and its result holds a match.
Matched == SearchOk /\ Truthy(done.result)

\* The group_id_list the group list call reported, empty when it reported none.
ReportedGroups == IF Truthy(groups) THEN groups.group_id_list ELSE <<>>

\* The persons the person list call reported for group g.
ReportedPersons(g) ==
  IF g \in DOMAIN reported /\ Truthy(reported[g])
  THEN Range(reported[g].user_id_list)
  ELSE {}

\* C1: a process call whose search succeeds with a match of confidence at or
\* above the threshold (equal included) writes exactly one file under the save
\* directory and emits exactly one detection.
C1_FileAtOrAboveThreshold ==
  (Matched /\ done.result.user_list[1].score >= Confidence)
    => /\ Len(done.files) = 1
       /\ done.files[1].dir = SavePath
       /\ done.called
       /\ Len(done.faces) = 1

\* C2: a process call whose search succeeds without a match emits the empty
\* detection list and writes no file; with a match below the threshold it emits
\* exactly one detection, carrying the user id and score of the first user_list
\* entry, and writes no file.
C2_NoFileBelowThreshold ==
  SearchOk =>
    /\ ~Truthy(done.result) =>
         done.called /\ done.faces = <<>> /\ done.files = <<>>
    /\ (Truthy(done.result) /\ done.result.user_list[1].score < Confidence) =>
         /\ done.called
         /\ done.faces = <<[name |-> done.result.user_list[1].user_id,
                            confidence |-> done.result.user_list[1].score]>>
         /\ done.files = <<>>

\* A process call ended on a match below the threshold that was followed by a
\* second entry in user_list.
C2_Witness ==
  /\ Matched
  /\ Len(done.result.user_list) = 2
  /\ done.result.user_list[1].score < Confidence
  /\ done.result.user_list[2].score > Confidence

\* C3: however the search call fails (rejection, transport failure, timeout),
\* the process call returns normally with no detection and no file: no error
\* leaves async_process_image.
C3_FailureNeverPropagates ==
  (done.entity # "none" /\ done.search = "failed")
    => /\ done.outcome = "returned"
       /\ done.faces = <<>>
       /\ done.files = <<>>

\* C4: in get_token and in call_api every transport failure and every timeout,
\* before or after the response was received, ends with the generic network
\* error of that call being raised, and with no other error.
C4_TransportFailureIsNetworkError ==
  lastCall.cause \in {"client_error", "timeout"}
    => lastCall.error = NetworkError(lastCall.op)

\* C5: when update_store completes, the group keys of the store are exactly the
\* reported group_id_list and the person keys of each group are exactly the
\* user_id_list reported for it, each person mapped to itself; a group whose
\* person list is empty or absent has no person.
C5_StoreMirrorsReports ==
  setupResult = "True" =>
    /\ DOMAIN store = Range(ReportedGroups)
    /\ \A g \in Range(ReportedGroups) :
         /\ DOMAIN store[g] = ReportedPersons(g)
         /\ \A p \in DOMAIN store[g] : store[g][p] = p

\* update_store completed for two groups, one with two persons and one whose
\* person list was absent.
C5_Witness ==
  /\ setupResult = "True"
  /\ Len(ReportedGroups) = 2
  /\ \E g \in Range(ReportedGroups) : Cardinality(DOMAIN store[g]) = 2
  /\ \E g \in Range(ReportedGroups) : ~Truthy(reported[g])

\* C6: a failure of the token call or of any call of the store sync makes
\* async_setup return False without raising and without publishing the client;
\* the client is published exactly when async_setup returns True.
C6_SetupFailureReturnsFalse ==
  setupPc = "done" =>
    /\ setupResult \in {"True", "False"}
    /\ published <=> setupResult = "True"
    /\ lastCall.cause # "ok" => (setupResult = "False" /\ ~published)

\* C7: when a process call ends without a match (an empty search result or a
\* failed call), every key of ATTR_LIST holds the sentinel.
C7_NoStaleAttrs ==
  (done.entity # "none" /\ done.outcome = "returned" /\ done.faces = <<>>)
    => \A k \in AttrKeys : ATTR_LIST[k] = Sentinel

\* C8: when update_store completes, every group of the reported group_id_list
\* has an entity whose state refresh has resolved, so that the host holds the
\* group's person count.
C8_EveryGroupRefreshed ==
  setupResult = "True" =>
    \A g \in Range(ReportedGroups) :
      /\ g \in entities
      /\ g \in DOMAIN hassState
      /\ hassState[g] = EntityState(store, g)

\* C9: every wait of get_token and call_api on the network, the read of the
\* response body included, is covered by the running timeout.
C9_TimeoutCoversEveryWait ==
  \A c \in Callers : net[c].phase \in {"request", "body"} => net[c].timer

\* C10: under every interleaving of the entities' process calls, the detection
\* of a process call carries the user id and score of the first match of that
\* call's own response, and a file it writes is named after that user id.
C10_OwnResponseOnly ==
  Matched =>
    /\ Len(done.faces) = 1
    /\ done.faces[1].name = done.result.user_list[1].user_id
    /\ done.faces[1].confidence = done.result.user_list[1].score
    /\ \A i \in 1..Len(done.files) :
         /\ done.files[i].user_id = done.result.user_list[1].user_id
         /\ done.files[i].content = done.image

\* A process call saved a frame although, while it awaited its search call,
\* another entity's call had filled ATTR_LIST, and a third call is in flight.
C10_Witness ==
  /\ Matched
  /\ done.overlapped
  /\ Len(done.files) = 1
  /\ Len(done.result.user_list) = 2
  /\ \E e \in Entities : e # done.entity /\ procPc[e] = "await"

====
